---- MODULE Spec2Model ----
(***************************************************************************)
(* Wave Rover MCP server (src/src/index.ts): the registry of rovers, the   *)
(* six tools, and the /sse and /messages routes.                           *)
(*                                                                         *)
(* JavaScript strings are modelled as sequences of tokens; concatenation   *)
(* and template literals are \o.  A token is a piece of text that is never *)
(* looked into; the characters that matter to JSON and to a URL (the       *)
(* quote, the backslash, '#') are always tokens of their own.  The event   *)
(* loop runs one handler at a time up to its next await, so an action is   *)
(* one such run.                                                           *)
(***************************************************************************)
EXTENDS Integers, Sequences, FiniteSets, Bags, TLC

VARIABLES
    roverConnections,  \* the Map<string, Rover> of line 27, as a function
    calls,             \* bag of the tool invocations suspended on `await axios.get(url)`
    last,              \* what the most recently finished invocation gave its caller
    connectLog,        \* history: the address and the result of every Connect, in call order
    transports,        \* the Map<string, SSEServerTransport> of line 129
    created,           \* history: the /sse request behind every transport ever constructed
    posts,             \* /messages requests suspended on `await transport.handlePostMessage`
    lastPost           \* the outcome of the most recent /messages request that was answered

vars == <<roverConnections, calls, last, connectLog, transports, created, posts, lastPost>>

toolVars == <<roverConnections, calls, last, connectLog>>
routeVars == <<transports, created, posts, lastPost>>

-----------------------------------------------------------------------------
(* Bounds and input sets *)

MaxRovers == 2      \* Connect calls explored
MaxInFlight == 2    \* tool invocations suspended at the same time
MaxTransports == 3  \* /sse requests explored
MaxPosts == 2       \* /messages requests suspended at the same time

Addresses == {"10.0.0.5", "rover.local:8080"}

\* Identifiers a caller supplies: two that Connect hands out, one that it never does.
IdInputs == {"rover1", "rover2", "rover9"}

NumPairs == {<<50, -50>>}
LineNums == {3}
Texts == {<<"h", "\"", "i", "\\">>, <<"a", "#", "b">>}

\* What a request carries as ?clientId= and as the client-id header; "" when it
\* carries none (undefined and "" are both falsy to ||).
QueryIds == {"", "a"}
HeaderIds == {"", "b"}

\* Response bodies of the device, and the ways a request can fail.
Bodies == {<<"pong">>, <<"{", "\"", "roll", "\"", ":", "1", "}">>}
Failures == {"connect ECONNREFUSED", "connect ETIMEDOUT",
             "Request failed with status code 500"}
Responses == [ok : {TRUE}, body : Bodies] \cup [ok : {FALSE}, error : Failures]

-----------------------------------------------------------------------------
(* Strings, JSON.stringify, URLs *)

Range(s) == {s[i] : i \in 1..Len(s)}

Num(n) == [kind |-> "number", v |-> n]
Str(t) == [kind |-> "string", v |-> t]

\* JSON.stringify of a string: quotes around it, quote and backslash escaped.
RECURSIVE Escape(_)
Escape(t) ==
    IF t = <<>> THEN <<>>
    ELSE (IF Head(t) \in {"\"", "\\"} THEN <<"\\", Head(t)>> ELSE <<Head(t)>>)
         \o Escape(Tail(t))

StringifyValue(x) ==
    IF x.kind = "number" THEN <<ToString(x.v)>>
    ELSE <<"\"">> \o Escape(x.v) \o <<"\"">>

RECURSIVE StringifyMembers(_)
StringifyMembers(fields) ==
    IF fields = <<>> THEN <<>>
    ELSE <<"\"", Head(fields)[1], "\"", ":">> \o StringifyValue(Head(fields)[2])
         \o (IF Tail(fields) = <<>> THEN <<>> ELSE <<",">>)
         \o StringifyMembers(Tail(fields))

\* JSON.stringify of an object literal, given as its <<key, value>> pairs in order.
JSONStringify(fields) == <<"{">> \o StringifyMembers(fields) \o <<"}">>

\* Mutant: the URL is built from the rover's identifier instead of its address.
DeviceUrlToId(rover, command) == <<"http://", rover.id, "/js?json=">> \o command

\* `http://${rover.ip}/js?json=${command}`
DeviceUrl(rover, command) == <<"http://", rover.ip, "/js?json=">> \o command

-----------------------------------------------------------------------------
(* The registry *)

Rover(id, ip) == [id |-> id, ip |-> ip]

\* roverConnections.size
Size(m) == Cardinality(DOMAIN m)

\* Mutant: the index is the size before the insertion, not one more.
NewRoverIdFromSize(m) == "rover" \o ToString(Size(m))

\* `rover${roverConnections.size + 1}`
NewRoverId(m) == "rover" \o ToString(Size(m) + 1)

\* Mutant: the entry is not stored.
MapSetLost(m, key, value) == m

\* roverConnections.set(key, value)
MapSet(m, key, value) == [k \in DOMAIN m \cup {key} |-> IF k = key THEN value ELSE m[k]]

\* undefined, what roverConnections.get gives for a key without entry
NoRover == [id |-> "", ip |-> ""]

\* Mutant: an identifier without entry falls back to the rover's access-point address.
MapGetOrDefault(m, id) == IF id \in DOMAIN m THEN m[id] ELSE [id |-> id, ip |-> "192.168.4.1"]

\* roverConnections.get(id): the rover, or NoRover for undefined
MapGet(m, id) == IF id \in DOMAIN m THEN m[id] ELSE NoRover

NotFound(id) == <<"Rover with ID ", id, " not found">>

-----------------------------------------------------------------------------
(* Command objects and result texts of the tools *)

SpeedCommand(leftWheelSpeed, rightWheelSpeed) ==
    JSONStringify(<< <<"T", Num(1)>>, <<"L", Num(leftWheelSpeed)>>, <<"R", Num(rightWheelSpeed)>> >>)
PWMCommand(L, R) ==
    JSONStringify(<< <<"T", Num(11)>>, <<"L", Num(L)>>, <<"R", Num(R)>> >>)
CmdVelCommand(L, R) ==
    JSONStringify(<< <<"T", Num(13)>>, <<"X", Num(L)>>, <<"Z", Num(R)>> >>)
ScreenCommand(lineNum, Text) ==
    JSONStringify(<< <<"T", Num(3)>>, <<"lineNum", Num(lineNum)>>, <<"Text", Str(Text)>> >>)
IMUCommand == JSONStringify(<< <<"T", Num(126)>> >>)

ConnectText(ip, roverId) == <<"Connected to: ", ip, " with ID: ", roverId>>
SpeedText(l, r) == <<"Left wheel speed: ", ToString(l), ", Right wheel speed: ", ToString(r)>>
PWMText(L, R) == <<"Left wheel speed: ", ToString(L), ", Right wheel speed: ", ToString(R)>>
CmdVelText(L, R) == <<"Velocity: ", ToString(L), ", Rotation: ", ToString(R)>>
ScreenText(lineNum, Text) == <<"Line Number: ", ToString(lineNum), ", Text: ">> \o Text

\* result.data: axios parses a body that is JSON; `${...}` of the parsed object is
\* "[object Object]", of a body left as text the text itself.
ResultData(body) == IF Head(body) = "{" THEN <<"[object Object]">> ELSE body
IMUText(body) == <<"result">> \o ResultData(body)


-----------------------------------------------------------------------------
(* Tool invocations *)

NoResult == [tool |-> "none"]

\* History: the identifier a Connect returned, read off its result text, and
\* the identifiers returned so far.
ReturnedId(e) == e.text[4]
Returned == {ReturnedId(connectLog[k]) : k \in 1..Len(connectLog)}

\* What the caller of a finished invocation receives: the error thrown or the
\* content returned.  known, sent, url and resp are history: whether Connect had
\* returned the identifier, the axios.get calls made, their URL, how axios settled.
Thrown(tool, args, message) ==
    [tool |-> tool, args |-> args, known |-> args.id \in Returned, isError |-> TRUE,
     text |-> message, sent |-> 0, url |-> <<>>, resp |-> [ok |-> FALSE, error |-> "none"]]
Completed(c, resp, isError, text) ==
    [tool |-> c.tool, args |-> c.args, known |-> c.known, isError |-> isError,
     text |-> text, sent |-> c.sent, url |-> c.url, resp |-> resp]

Suspended(tool, args, rover, command) ==
    [tool |-> tool, args |-> args, known |-> args.id \in Returned, rover |-> rover,
     url |-> DeviceUrl(rover, command), sent |-> 1]

\* Lines 48-54 (and their four copies): look the rover up, throw when there is
\* none, else build the URL and suspend on axios.get(url), the one request.
Dispatch(tool, args, command) ==
    LET rover == MapGet(roverConnections, args.id) IN
    /\ IF rover = NoRover
       THEN /\ last' = Thrown(tool, args, NotFound(args.id))
            /\ UNCHANGED calls
       ELSE /\ BagCardinality(calls) < MaxInFlight
            /\ calls' = calls (+) SetToBag({Suspended(tool, args, rover, command)})
            /\ UNCHANGED last
    /\ UNCHANGED <<roverConnections, connectLog, routeVars>>

\* Lines 32-39: the handler has no await, so reading the size, storing the
\* entry and returning are one run of the event loop.
Connect(ip) ==
    LET roverId == NewRoverId(roverConnections)
        rover == Rover(roverId, ip) IN
    /\ Len(connectLog) < MaxRovers
    /\ roverConnections' = MapSet(roverConnections, roverId, rover)
    /\ connectLog' = Append(connectLog, [ip |-> ip, text |-> ConnectText(ip, roverId)])
    /\ last' = [tool |-> "Connect", args |-> [ip |-> ip], known |-> FALSE,
                isError |-> FALSE, text |-> ConnectText(ip, roverId), sent |-> 0,
                url |-> <<>>, resp |-> [ok |-> FALSE, error |-> "none"]]
    /\ UNCHANGED <<calls, routeVars>>

Speed(id, leftWheelSpeed, rightWheelSpeed) ==
    Dispatch("Speed",
             [id |-> id, leftWheelSpeed |-> leftWheelSpeed, rightWheelSpeed |-> rightWheelSpeed],
             SpeedCommand(leftWheelSpeed, rightWheelSpeed))

PWM(id, L, R) ==
    Dispatch("PWM", [id |-> id, L |-> L, R |-> R], PWMCommand(L, R))

cmd_vel(id, L, R) ==
    Dispatch("cmd_vel", [id |-> id, L |-> L, R |-> R], CmdVelCommand(L, R))

Screen(id, lineNum, Text) ==
    Dispatch("Screen", [id |-> id, lineNum |-> lineNum, Text |-> Text],
             ScreenCommand(lineNum, Text))

IMU(id) ==
    Dispatch("IMU", [id |-> id], IMUCommand)

\* The text of the content returned after the await (lines 56, 73, 90, 107, 123).
ReturnText(c, body) ==
    CASE c.tool = "Speed" -> SpeedText(c.args.leftWheelSpeed, c.args.rightWheelSpeed)
      [] c.tool = "PWM" -> PWMText(c.args.L, c.args.R)
      [] c.tool = "cmd_vel" -> CmdVelText(c.args.L, c.args.R)
      [] c.tool = "Screen" -> ScreenText(c.args.lineNum, c.args.Text)
      [] c.tool = "IMU" -> IMUText(body)

\* Mutant: a rejected request is issued once more.
SettleRetry(c, resp) ==
    /\ BagIn(c, calls)
    /\ IF resp.ok \/ c.sent > 1
       THEN /\ last' = IF resp.ok
                       THEN Completed(c, resp, FALSE, ReturnText(c, resp.body))
                       ELSE Completed(c, resp, TRUE, <<resp.error>>)
            /\ calls' = calls (-) SetToBag({c})
       ELSE /\ calls' = (calls (-) SetToBag({c})) (+) SetToBag({[c EXCEPT !.sent = 2]})
            /\ UNCHANGED last
    /\ UNCHANGED <<roverConnections, connectLog, routeVars>>

\* Mutant: the outcome of the request is not looked at.
SettleIgnoreFailure(c, resp) ==
    /\ BagIn(c, calls)
    /\ last' = Completed(c, resp, FALSE,
                         ReturnText(c, IF resp.ok THEN resp.body ELSE <<resp.error>>))
    /\ calls' = calls (-) SetToBag({c})
    /\ UNCHANGED <<roverConnections, connectLog, routeVars>>

\* Mutant: a rover whose request was rejected is dropped from the registry.
SettleEvict(c, resp) ==
    /\ BagIn(c, calls)
    /\ last' = IF resp.ok
               THEN Completed(c, resp, FALSE, ReturnText(c, resp.body))
               ELSE Completed(c, resp, TRUE, <<resp.error>>)
    /\ calls' = calls (-) SetToBag({c})
    /\ roverConnections' = IF resp.ok THEN roverConnections
                           ELSE [k \in DOMAIN roverConnections \ {c.args.id} |-> roverConnections[k]]
    /\ UNCHANGED <<connectLog, routeVars>>

\* axios.get(url) settles: fulfilled with the response of a 2xx answer, and the
\* handler returns its content; rejected otherwise, and the await throws.
Settle(c, resp) ==
    /\ BagIn(c, calls)
    /\ last' = IF resp.ok
               THEN Completed(c, resp, FALSE, ReturnText(c, resp.body))
               ELSE Completed(c, resp, TRUE, <<resp.error>>)
    /\ calls' = calls (-) SetToBag({c})
    /\ UNCHANGED <<roverConnections, connectLog, routeVars>>

-----------------------------------------------------------------------------
(* The /sse and /messages routes *)

\* a || b on strings
Or(a, b) == IF a # "" THEN a ELSE b

\* Mutant: /messages prefers the header to the query parameter.
MessagesClientIdHeaderFirst(q, h) == Or(h, Or(q, "defaultClientId"))

\* Lines 132 and 143
SseClientId(q, h) == Or(q, Or(h, "defaultClientId"))
MessagesClientId(q, h) == Or(q, Or(h, "defaultClientId"))

NoPost == [status |-> 0]

\* The session of a request: its client identifier, which is the query
\* parameter, else the header, else the default label.
SessionOf(r) == IF r.q # "" THEN r.q ELSE IF r.h # "" THEN r.h ELSE "defaultClientId"

\* History: whether a /sse request of the session of r came before.
Opened(r) == \E t \in 1..Len(created) : SessionOf(created[t]) = SessionOf(r)

\* A /messages request with its answer; transport is the one looked up, 0 for none.
Answer(q, h, status, transport) ==
    [q |-> q, h |-> h, status |-> status, transport |-> transport,
     opened |-> Opened([q |-> q, h |-> h])]

\* GET /sse: a transport is constructed (the Len(created)+1-th) and stored under
\* the client identifier; server.connect(transport) is the last statement.
Sse(q, h) ==
    LET clientId == SseClientId(q, h)
        transport == Len(created) + 1 IN
    /\ Len(created) < MaxTransports
    /\ IF clientId = ""
       THEN UNCHANGED <<transports, created>>
       ELSE /\ transports' = MapSet(transports, clientId, transport)
            /\ created' = Append(created, [q |-> q, h |-> h])
    /\ UNCHANGED <<posts, lastPost, toolVars>>

\* POST /messages up to its await: 400 without a client identifier, 404 without a
\* transport for it, else suspended on transport.handlePostMessage(req, res).
Messages(q, h) ==
    LET clientId == MessagesClientId(q, h) IN
    /\ IF clientId = ""
       THEN /\ lastPost' = Answer(q, h, 400, 0)
            /\ UNCHANGED posts
       ELSE IF clientId \notin DOMAIN transports
       THEN /\ lastPost' = Answer(q, h, 404, 0)
            /\ UNCHANGED posts
       ELSE /\ Cardinality(posts) < MaxPosts
            /\ posts' = posts \cup {Answer(q, h, 0, transports[clientId])}
            /\ UNCHANGED lastPost
    /\ UNCHANGED <<transports, created, toolVars>>

\* handlePostMessage of the transport looked up before the await answers the request.
Handled(p) ==
    /\ p \in posts
    /\ posts' = posts \ {p}
    /\ lastPost' = [p EXCEPT !.status = 202]
    /\ UNCHANGED <<transports, created, toolVars>>

-----------------------------------------------------------------------------
(* Specifications *)

InitTools ==
    /\ roverConnections = <<>>
    /\ calls = EmptyBag
    /\ last = NoResult
    /\ connectLog = <<>>

InitRoutes ==
    /\ transports = <<>>
    /\ created = <<>>
    /\ posts = {}
    /\ lastPost = NoPost

Init == InitTools /\ InitRoutes

\* The tools and the routes share no state: each is explored with the other at rest.
Next ==
    \/ \E ip \in Addresses : Connect(ip)
    \/ \E id \in IdInputs, p \in NumPairs : Speed(id, p[1], p[2])
    \/ \E id \in IdInputs, p \in NumPairs : PWM(id, p[1], p[2])
    \/ \E id \in IdInputs, p \in NumPairs : cmd_vel(id, p[1], p[2])
    \/ \E id \in IdInputs, n \in LineNums, t \in Texts : Screen(id, n, t)
    \/ \E id \in IdInputs : IMU(id)
    \/ \E c \in BagToSet(calls), resp \in Responses : Settle(c, resp)

Spec == Init /\ [][Next]_vars

NextRoutes ==
    \/ \E q \in QueryIds, h \in HeaderIds : Sse(q, h)
    \/ \E q \in QueryIds, h \in HeaderIds : Messages(q, h)
    \/ \E p \in posts : Handled(p)

SpecRoutes == Init /\ [][NextRoutes]_vars

(* Properties of the tools, checked under Spec *)

DeviceTools == {"Speed", "PWM", "cmd_vel", "Screen", "IMU"}
InFlight == BagToSet(calls)

\* C1: the k-th Connect returns the identifier "rover" followed by k, so the
\* identifiers are rover1 .. roverN in call order, whatever else is invoked between.
C1_SequentialIdentifiers ==
    \A k \in 1..Len(connectLog) : ReturnedId(connectLog[k]) = "rover" \o ToString(k)

C1_Witness ==
    /\ Len(connectLog) = 2
    /\ ReturnedId(connectLog[2]) = "rover2"
    /\ last.tool = "Screen"

\* C2: with Connect calls arriving while other invocations are suspended on
\* their request, no two Connect calls return the same identifier and no
\* registration is lost: the k-th Connect's address is stored under its identifier.
C2_NoDuplicateNoLoss ==
    /\ \A j, k \in 1..Len(connectLog) :
          j # k => ReturnedId(connectLog[j]) # ReturnedId(connectLog[k])
    /\ Size(roverConnections) = Len(connectLog)
    /\ \A k \in 1..Len(connectLog) :
          /\ ReturnedId(connectLog[k]) \in DOMAIN roverConnections
          /\ roverConnections[ReturnedId(connectLog[k])].ip = connectLog[k].ip

C2_Witness ==
    /\ Len(connectLog) = 2
    /\ BagCardinality(calls) = 2
    /\ \A c \in InFlight : c.args.id = "rover1"

\* C3: a device tool invoked with an identifier Connect never returned fails
\* with the not-found error naming that identifier and issues no request.
C3_UnknownDevice ==
    /\ \A c \in InFlight : c.known
    /\ (last.tool \in DeviceTools /\ ~last.known) =>
          /\ last.isError
          /\ last.text = <<"Rover with ID ", last.args.id, " not found">>
          /\ last.sent = 0
          /\ last.url = <<>>

C3_Witness ==
    /\ last.tool = "IMU"
    /\ ~last.known
    /\ last.isError
    /\ Len(connectLog) = 1

\* The host (and port) a URL addresses.
Authority(url) == url[2]

\* C4: the request of an invocation with an identifier that a Connect with
\* address A returned goes to A, whatever Connect calls came in between.
C4_AddressImmutable ==
    \A k \in 1..Len(connectLog) :
        /\ \A c \in InFlight :
              c.args.id = ReturnedId(connectLog[k]) => Authority(c.url) = connectLog[k].ip
        /\ (last.tool \in DeviceTools /\ last.sent > 0
              /\ last.args.id = ReturnedId(connectLog[k]))
           => Authority(last.url) = connectLog[k].ip

C4_Witness ==
    /\ Len(connectLog) = 2
    /\ connectLog[1].ip # connectLog[2].ip
    /\ \E c \in InFlight : c.args.id = "rover1" /\ Authority(c.url) = connectLog[1].ip
    /\ \E c \in InFlight : c.args.id = "rover2" /\ Authority(c.url) = connectLog[2].ip

\* The command object each tool is said to send, as <<key, value>> pairs.
ExpectedCommand(tool, args) ==
    CASE tool = "Speed" ->
           << <<"T", Num(1)>>, <<"L", Num(args.leftWheelSpeed)>>, <<"R", Num(args.rightWheelSpeed)>> >>
      [] tool = "PWM" -> << <<"T", Num(11)>>, <<"L", Num(args.L)>>, <<"R", Num(args.R)>> >>
      [] tool = "cmd_vel" -> << <<"T", Num(13)>>, <<"X", Num(args.L)>>, <<"Z", Num(args.R)>> >>
      [] tool = "Screen" ->
           << <<"T", Num(3)>>, <<"lineNum", Num(args.lineNum)>>, <<"Text", Str(args.Text)>> >>
      [] tool = "IMU" -> << <<"T", Num(126)>> >>

\* What a GET of the URL carries as the value of json: the text after "json=" up
\* to the fragment, which begins at the first '#' and is not part of a request.
RECURSIVE UpToFragment(_)
UpToFragment(t) ==
    IF t = <<>> \/ Head(t) = "#" THEN <<>> ELSE <<Head(t)>> \o UpToFragment(Tail(t))
Carried(url) == UpToFragment(SubSeq(url, 4, Len(url)))

\* C5: the request of a device tool carries the JSON of the command object
\* that the tool and its arguments determine.
C5_CommandCarried ==
    \A c \in InFlight : Carried(c.url) = JSONStringify(ExpectedCommand(c.tool, c.args))

\* C6: an invocation of a device tool with a registered identifier issues
\* exactly one request, whether the request succeeds or fails.
C6_ExactlyOneRequest ==
    /\ \A c \in InFlight : c.sent = 1
    /\ (last.tool \in DeviceTools /\ last.known) => last.sent = 1

C6_Witness ==
    /\ last.tool = "PWM"
    /\ last.known
    /\ last.isError
    /\ last.sent = 1

\* C7: when the request of a device tool fails (refused, timed out, or answered
\* with a status that is not 2xx), the invocation ends as a failed one, with
\* the error of the request, and does not return the confirmation text.
C7_TransportFailure ==
    (last.tool \in DeviceTools /\ last.sent > 0 /\ ~last.resp.ok) =>
        /\ last.isError
        /\ last.text = <<last.resp.error>>
        /\ \A b \in Bodies : last.text # ReturnText(last, b)

C7_Witness ==
    /\ last.tool = "Speed"
    /\ last.sent = 1
    /\ last.resp = [ok |-> FALSE, error |-> "Request failed with status code 500"]
    /\ last.isError
    /\ calls # EmptyBag

\* C8: the result text of a successful IMU is the body the device returned.
C8_IMUVerbatim ==
    (last.tool = "IMU" /\ last.sent > 0 /\ last.resp.ok) => last.text = last.resp.body

Kept(old, new) == \A id \in DOMAIN old : id \in DOMAIN new /\ new[id] = old[id]

\* C9: the registry changes only in a Connect, which adds one entry, keeps all
\* the others as they were and issues no request; every step of a device tool
\* leaves the registry as it was.
C9_ConnectSoleWriter ==
    [][ /\ Kept(roverConnections, roverConnections')
        /\ (roverConnections' # roverConnections \/ connectLog' # connectLog) =>
              /\ Len(connectLog') = Len(connectLog) + 1
              /\ Size(roverConnections') = Size(roverConnections) + 1
              /\ last'.tool = "Connect"
              /\ calls' = calls
        /\ (calls' # calls \/ last'.tool \in DeviceTools) =>
              roverConnections' = roverConnections
      ]_vars

C9_Witness ==
    /\ Size(roverConnections) = 2
    /\ last.tool = "cmd_vel"
    /\ last.isError
    /\ last.sent = 1
    /\ calls # EmptyBag

-----------------------------------------------------------------------------
(* Properties of the routes, checked under SpecRoutes *)

SessionTransports(id) == {t \in 1..Len(created) : SessionOf(created[t]) = id}

\* C10: a message posted to /messages is handled by a transport that a /sse
\* request of the same client identifier created, the latest one at the time
\* the message arrived, and is answered 404 exactly when there was none.
C10_SessionTransport ==
    /\ \A id \in DOMAIN transports :
          /\ transports[id] \in SessionTransports(id)
          /\ \A t \in SessionTransports(id) : t <= transports[id]
    /\ \A p \in posts : p.transport \in SessionTransports(SessionOf(p))
    /\ lastPost.status = 202 => lastPost.transport \in SessionTransports(SessionOf(lastPost))
    /\ lastPost.status # 0 => (lastPost.status = 404 <=> ~lastPost.opened)
    /\ lastPost.status # 0 => (lastPost.status = 202 <=> lastPost.opened)

C10_Witness ==
    /\ lastPost.status = 202
    /\ lastPost.q = "a"
    /\ lastPost.h = "b"
    /\ SessionTransports("b") # {}
    /\ \E p \in posts : SessionOf(p) = "b"
    /\ lastPost.transport < transports["a"]
=============================================================================
